---- MODULE Spec2Model ----
(***************************************************************************)
(* The POST /api/generate-image handler of the image-generation gateway,   *)
(* in its two deployments: src/api/server.js (Hugging Face: the success    *)
(* body is the raw image) and src/backend/server.js (Stability AI: the     *)
(* success body is JSON carrying a base64 image).                          *)
(*                                                                         *)
(* A prompt string is kept run-length encoded: `lead` whitespace           *)
(* characters, then `core` characters from the first to the last           *)
(* non-whitespace character, then `trail` whitespace characters.  A string *)
(* of whitespace only has core = 0 and all of its characters in `lead`.    *)
(***************************************************************************)
EXTENDS Integers, Sequences, FiniteSets, TLC

VARIABLES
    variant,    \* which server.js is deployed: "api" or "backend"
    apiKey,     \* process.env.HUGGINGFACE_API_KEY / STABILITY_API_KEY
    pc,         \* per invocation: where the async handler stands
    prompt,     \* per invocation: req.body.prompt
    net,        \* per invocation: the outbound fetch calls issued, in order
    reply,      \* per invocation: what the provider answered to its fetch
    res         \* per invocation: the responses sent to the caller, in order

vars == <<variant, apiKey, pc, prompt, net, reply, res>>

----------------------------------------------------------------------------
(* Program constants *)

MinPromptLength == 3
MaxPromptLength == 500

(* Bounds of the model *)

MaxPad == 1
Near == 1
MaxImageLen == 3
NumConcurrent == 2

----------------------------------------------------------------------------
(* JavaScript values of req.body.prompt *)

Str(l, c, t) == [type |-> "string", num |-> 0, lead |-> l, core |-> c, trail |-> t]
NonStr(ty, n) == [type |-> ty, num |-> n, lead |-> 0, core |-> 0, trail |-> 0]

Undefined == NonStr("undefined", 0)

\* String.prototype.length
Length(p) == p.lead + p.core + p.trail

\* String.prototype.trim
Trim(p) == [p EXCEPT !.lead = 0, !.trail = 0]

\* !prompt: undefined, null, 0, false and "" are falsy
Falsy(p) ==
    CASE p.type = "undefined" -> TRUE
      [] p.type = "null"      -> TRUE
      [] p.type = "number"    -> p.num = 0
      [] p.type = "boolean"   -> p.num = 0
      [] p.type = "string"    -> Length(p) = 0
      [] OTHER                -> FALSE

\* typeof prompt
TypeOf(p) ==
    CASE p.type = "null"   -> "object"
      [] OTHER             -> p.type

----------------------------------------------------------------------------
(* Base64.  A base64 text is a sequence of alphabet indices: A-Z are 0..25, *)
(* a-z are 26..51, 0-9 are 52..61, + is 62, / is 63; 64 stands for the      *)
(* padding character "=".                                                   *)

Pad == 64

RECURSIVE Base64Encode(_)
\* Buffer.from(buffer).toString('base64')
Base64Encode(bytes) ==
    IF Len(bytes) = 0 THEN <<>>
    ELSE IF Len(bytes) = 1 THEN
        <<bytes[1] \div 4, (bytes[1] % 4) * 16, Pad, Pad>>
    ELSE IF Len(bytes) = 2 THEN
        <<bytes[1] \div 4,
          (bytes[1] % 4) * 16 + bytes[2] \div 16,
          (bytes[2] % 16) * 4,
          Pad>>
    ELSE
        <<bytes[1] \div 4,
          (bytes[1] % 4) * 16 + bytes[2] \div 16,
          (bytes[2] % 16) * 4 + bytes[3] \div 64,
          bytes[3] % 64>>
        \o Base64Encode(SubSeq(bytes, 4, Len(bytes)))

\* Whether a text is a base64 encoding a client can decode: whole groups of
\* four characters, padding only at the end of the last group.
IsBase64(text) ==
    /\ Len(text) % 4 = 0
    /\ \A k \in 1..Len(text) :
          /\ text[k] \in 0..Pad
          /\ text[k] = Pad =>
                /\ k >= Len(text) - 1
                /\ k % 4 \in {0, 3}
                /\ k % 4 = 3 => text[k + 1] = Pad

RECURSIVE Base64Decode(_)
\* What the client obtains from the data URI's payload (atob).
Base64Decode(text) ==
    IF Len(text) < 4 THEN <<>>
    ELSE
        LET a == text[1]
            b == text[2]
            c == text[3]
            d == text[4]
            b1 == a * 4 + b \div 16
            b2 == (b % 16) * 16 + c \div 4
            b3 == (c % 4) * 64 + d
        IN  IF c = Pad THEN <<b1>>
            ELSE IF d = Pad THEN <<b1, b2>>
            ELSE <<b1, b2, b3>> \o Base64Decode(SubSeq(text, 5, Len(text)))

\* `${undefined}`: the nine characters u n d e f i n e d, which all lie in
\* the base64 alphabet.
UndefinedText == <<46, 39, 29, 30, 31, 34, 39, 30, 29>>

----------------------------------------------------------------------------
(* Responses sent to the caller: res.status(s).json(...) *)

Message(t) == [text |-> t, code |-> 0, detail |-> ""]
NoError == Message("")
NoImage == [mime |-> "", data |-> <<>>]

ErrorResponse(s, msg) ==
    [status |-> s, success |-> FALSE, error |-> msg,
     image |-> NoImage, prompt |-> Undefined]

\* A faulty variant: the trimmed prompt is echoed
SuccessResponseTrimmed(base64Image, p) ==
    [status |-> 200, success |-> TRUE, error |-> NoError,
     image |-> [mime |-> "image/png", data |-> base64Image], prompt |-> Trim(p)]

\* res.json({ success: true, image: `data:image/png;base64,${base64Image}`, prompt })
SuccessResponse(base64Image, p) ==
    [status |-> 200, success |-> TRUE, error |-> NoError,
     image |-> [mime |-> "image/png", data |-> base64Image], prompt |-> p]

PromptTooShort == Message("Please provide a valid prompt (at least 3 characters)")
PromptTooLong == Message("Prompt is too long. Please keep it under 500 characters.")
ConfigurationError == Message("Server configuration error. Please check API key setup.")
InternalError == Message("Internal server error. Please try again later.")
AuthFailed == Message("API authentication failed. Please check your Hugging Face API key.")
ModelLoading == Message("Model is loading, please try again in a few moments")
RateLimited == Message("Rate limit exceeded, please wait before trying again")
FailedToGenerate == Message("Failed to generate image")

\* `Failed to generate image (${response.status}): ${errorData}`
FailedWithDetail(s, errorData) ==
    [text |-> "Failed to generate image", code |-> s, detail |-> errorData]

\* The catch block of the handler
CatchResponse == ErrorResponse(500, InternalError)

\* What a stretch of the try block comes to: a response sent, or a throw.
Return(r) == [threw |-> FALSE, response |-> r]
Throw == [threw |-> TRUE, response |-> ErrorResponse(0, NoError)]

\* try { ... } catch (error) { res.status(500).json(...) }
TryCatch(c) == IF c.threw THEN CatchResponse ELSE c.response

----------------------------------------------------------------------------
(* What the provider answers: the fetch rejects, or resolves to a response  *)
(* with a status and a body (which may fail while it is read).              *)

NoJson == [isNull |-> TRUE, hasArtifacts |-> FALSE, artifacts |-> <<>>]
NoBody == [kind |-> "unreadable", text |-> "", bytes |-> <<>>, json |-> NoJson]

TextBody(t) == [NoBody EXCEPT !.kind = "text", !.text = t]
BytesBody(b) == [NoBody EXCEPT !.kind = "bytes", !.bytes = b]
JsonBody(j) == [NoBody EXCEPT !.kind = "json", !.json = j]

Artifact(b64) == [isNull |-> FALSE, hasBase64 |-> TRUE, base64 |-> b64]
ArtifactWithoutImage == [isNull |-> FALSE, hasBase64 |-> FALSE, base64 |-> <<>>]
NullArtifact == [isNull |-> TRUE, hasBase64 |-> FALSE, base64 |-> <<>>]
JsonObject(hasArts, arts) ==
    [isNull |-> FALSE, hasArtifacts |-> hasArts, artifacts |-> arts]

NoReply == [kind |-> "none", status |-> 0, body |-> NoBody]
NetworkError == [kind |-> "networkError", status |-> 0, body |-> NoBody]
HttpResponse(s, b) == [kind |-> "response", status |-> s, body |-> b]

\* response.ok
Ok(response) == response.status \in 200..299

Secret == "sk-secret"

\* process.env.<KEY>: unset, set to the empty string, or set to the secret
EnvValues ==
    {[set |-> FALSE, value |-> ""], [set |-> TRUE, value |-> ""],
     [set |-> TRUE, value |-> Secret]}

\* A faulty variant: only an unset variable counts as missing (=== undefined)
KeyUndefined(key) == ~key.set

\* !process.env.<KEY>
KeyMissing(key) == ~key.set \/ key.value = ""

----------------------------------------------------------------------------
(* The handler, stretch by stretch *)

\* A faulty variant: the minimum is checked on the untrimmed prompt
ValidationUntrimmed(p) ==
    IF \/ Falsy(p)
       \/ TypeOf(p) # "string"
       \/ Length(p) < MinPromptLength
    THEN <<ErrorResponse(400, PromptTooShort)>>
    ELSE IF Length(p) > MaxPromptLength
    THEN <<ErrorResponse(400, PromptTooLong)>>
    ELSE <<>>

\* A faulty variant: the maximum is checked with >= instead of >
ValidationOffByOne(p) ==
    IF \/ Falsy(p)
       \/ TypeOf(p) # "string"
       \/ Length(Trim(p)) < MinPromptLength
    THEN <<ErrorResponse(400, PromptTooShort)>>
    ELSE IF Length(p) >= MaxPromptLength
    THEN <<ErrorResponse(400, PromptTooLong)>>
    ELSE <<>>

\* Input validation: the response of an early return, or none
Validation(p) ==
    IF \/ Falsy(p)
       \/ TypeOf(p) # "string"
       \/ Length(Trim(p)) < MinPromptLength
    THEN <<ErrorResponse(400, PromptTooShort)>>
    ELSE IF Length(p) > MaxPromptLength
    THEN <<ErrorResponse(400, PromptTooLong)>>
    ELSE <<>>

\* Check if API key is configured: the response of an early return, or none
KeyCheck(key) ==
    IF KeyMissing(key) THEN <<ErrorResponse(500, ConfigurationError)>> ELSE <<>>

Endpoint(v) ==
    IF v = "api"
    THEN "https://api-inference.huggingface.co/models/stabilityai/stable-diffusion-xl-base-1.0"
    ELSE "https://api.stability.ai/v1/generation/stable-diffusion-xl-1024-v1-0/text-to-image"

\* The arguments of fetch(...): the fixed endpoint, the bearer credential and
\* the prompt placed in the JSON body (inputs / text_prompts[0].text).
FetchRequest(v, key, p) ==
    [url |-> Endpoint(v), method |-> "POST",
     authorization |-> [scheme |-> "Bearer", token |-> key.value],
     text |-> p]

\* A faulty variant: the 429 branch is missing
ApiErrorMessageNoRateLimit(status) ==
    IF status = 401 THEN AuthFailed
    ELSE IF status = 503 THEN ModelLoading
    ELSE FailedToGenerate

\* errorMessage of src/api/server.js for a response that is not ok
ApiErrorMessage(status) ==
    IF status = 401 THEN AuthFailed
    ELSE IF status = 503 THEN ModelLoading
    ELSE IF status = 429 THEN RateLimited
    ELSE FailedToGenerate

\* A faulty variant: the provider's error body is appended in every bucket
BackendErrorMessageVerbose(status, errorData) ==
    FailedWithDetail(status, errorData)

\* errorMessage of src/backend/server.js for a response that is not ok
BackendErrorMessage(status, errorData) ==
    IF status = 401 THEN AuthFailed
    ELSE IF status = 503 THEN ModelLoading
    ELSE IF status = 429 THEN RateLimited
    ELSE FailedWithDetail(status, errorData)

\* A faulty variant: every status outside the three buckets is answered with 500
ApiFailureClamped(response) ==
    Return(ErrorResponse(IF response.status \in {401, 503, 429}
                         THEN response.status ELSE 500,
                         ApiErrorMessage(response.status)))

\* src/api/server.js, if (!response.ok): no body is read
ApiFailure(response) ==
    Return(ErrorResponse(response.status, ApiErrorMessage(response.status)))

\* src/backend/server.js, if (!response.ok), once response.text() settled
BackendFailure(response) ==
    IF response.body.kind = "unreadable" THEN Throw
    ELSE Return(ErrorResponse(response.status,
                    BackendErrorMessage(response.status, response.body.text)))

\* src/api/server.js, once response.arrayBuffer() settled
ApiSuccess(response, p) ==
    IF response.body.kind = "unreadable" THEN Throw
    ELSE Return(SuccessResponse(Base64Encode(response.body.bytes), p))

\* src/backend/server.js, once response.json() settled
BackendSuccess(response, p) ==
    IF response.body.kind # "json" THEN Throw
    ELSE LET responseData == response.body.json IN
         IF responseData.isNull THEN Throw
         ELSE IF ~responseData.hasArtifacts \/ Len(responseData.artifacts) = 0
         THEN Throw
         ELSE IF responseData.artifacts[1].isNull THEN Throw
         ELSE LET base64Image ==
                      IF responseData.artifacts[1].hasBase64
                      THEN responseData.artifacts[1].base64
                      ELSE UndefinedText
              IN  Return(SuccessResponse(base64Image, p))

----------------------------------------------------------------------------
(* State *)

Invocations == DOMAIN pc

\* A faulty variant: `response` is one variable shared by all invocations
ResponseOfShared(i) == IF reply[1] # NoReply THEN reply[1] ELSE reply[i]

\* `response`, the constant the awaited fetch of invocation i resolved to
ResponseOf(i) == reply[i]

Send(i, r) ==
    /\ res' = [res EXCEPT ![i] = Append(@, r)]
    /\ pc' = [pc EXCEPT ![i] = "done"]

\* The handler from its entry to its first await (or its early return)
HandlerEntry(i, p) ==
    /\ pc[i] = "idle"
    /\ prompt' = [prompt EXCEPT ![i] = p]
    /\ IF Validation(p) # <<>> THEN
            /\ Send(i, Validation(p)[1])
            /\ UNCHANGED net
       ELSE IF KeyCheck(apiKey) # <<>> THEN
            /\ Send(i, KeyCheck(apiKey)[1])
            /\ UNCHANGED net
       ELSE
            /\ net' = [net EXCEPT ![i] = Append(@, FetchRequest(variant, apiKey, p))]
            /\ pc' = [pc EXCEPT ![i] = "fetch"]
            /\ UNCHANGED res
    /\ UNCHANGED <<variant, apiKey, reply>>

\* The provider (or the network) settles the fetch of invocation i
Settle(i, o) ==
    /\ pc[i] = "fetch"
    /\ reply[i] = NoReply
    /\ reply' = [reply EXCEPT ![i] = o]
    /\ UNCHANGED <<variant, apiKey, pc, prompt, net, res>>

\* A faulty variant: a 503 is retried
FetchSettledRetry(i) ==
    /\ pc[i] = "fetch"
    /\ reply[i] # NoReply
    /\ LET response == ResponseOf(i) IN
       IF response.kind = "response" /\ response.status = 503
       THEN /\ net' = [net EXCEPT ![i] = Append(@, FetchRequest(variant, apiKey, prompt[i]))]
            /\ reply' = [reply EXCEPT ![i] = NoReply]
            /\ UNCHANGED <<pc, res>>
       ELSE /\ IF response.kind = "networkError" THEN Send(i, TryCatch(Throw))
               ELSE IF ~Ok(response) /\ variant = "api"
               THEN Send(i, TryCatch(ApiFailure(response)))
               ELSE /\ pc' = [pc EXCEPT ![i] = "body"]
                    /\ UNCHANGED res
            /\ UNCHANGED <<net, reply>>
    /\ UNCHANGED <<variant, apiKey, prompt>>

\* The handler resumes after await fetch(...)
FetchSettled(i) ==
    /\ pc[i] = "fetch"
    /\ reply[i] # NoReply
    /\ LET response == ResponseOf(i) IN
       IF response.kind = "networkError" THEN Send(i, TryCatch(Throw))
       ELSE IF ~Ok(response) /\ variant = "api"
       THEN Send(i, TryCatch(ApiFailure(response)))
       ELSE /\ pc' = [pc EXCEPT ![i] = "body"]
            /\ UNCHANGED res
    /\ UNCHANGED <<variant, apiKey, prompt, net, reply>>

\* The handler resumes after await response.text() / arrayBuffer() / json()
BodySettled(i) ==
    /\ pc[i] = "body"
    /\ LET response == ResponseOf(i) IN
       IF ~Ok(response) THEN Send(i, TryCatch(BackendFailure(response)))
       ELSE IF variant = "api"
       THEN Send(i, TryCatch(ApiSuccess(response, prompt[i])))
       ELSE Send(i, TryCatch(BackendSuccess(response, prompt[i])))
    /\ UNCHANGED <<variant, apiKey, prompt, net, reply>>

----------------------------------------------------------------------------
(* Inputs *)

SeqsUpTo(S, n) == UNION {[1..k -> S] : k \in 0..n}

Pads == 0..MaxPad
CoreLengths ==
    (0..(MinPromptLength + Near))
    \cup ((MaxPromptLength - Near)..(MaxPromptLength + Near))

StringPrompts ==
    {Str(l, c, t) : l \in Pads, c \in CoreLengths, t \in Pads} \
        {Str(l, 0, t) : l \in Pads, t \in Pads \ {0}}

NonStringPrompts ==
    {Undefined, NonStr("null", 0), NonStr("number", 0), NonStr("number", 7),
     NonStr("boolean", 0), NonStr("boolean", 1), NonStr("object", 0)}

Prompts == StringPrompts \cup NonStringPrompts

ByteSamples == {0, 77, 255}
Payloads == SeqsUpTo(ByteSamples, MaxImageLen)

Statuses == {200, 400, 401, 403, 404, 429, 502, 503}
ErrorTexts == {"model overloaded", "invalid request", Secret}
ErrorBodies == {NoBody} \cup {TextBody(t) : t \in ErrorTexts}

JsonDocs ==
    {NoJson, JsonObject(FALSE, <<>>), JsonObject(TRUE, <<>>),
     JsonObject(TRUE, <<NullArtifact>>), JsonObject(TRUE, <<ArtifactWithoutImage>>)}
    \cup {JsonObject(TRUE, <<Artifact(Base64Encode(b))>>) : b \in Payloads}
    \cup {JsonObject(TRUE, <<Artifact(Base64Encode(b)), Artifact(<<>>)>>) : b \in Payloads}

\* The bodies each provider sends with a success status: Hugging Face the
\* image itself, Stability AI a JSON document (or something that is not JSON).
SuccessBodies(v) ==
    IF v = "api"
    THEN {NoBody} \cup {BytesBody(b) : b \in Payloads}
    ELSE {NoBody, TextBody("<html>")} \cup {JsonBody(j) : j \in JsonDocs}

Outcomes(v) ==
    {NetworkError}
    \cup {HttpResponse(s, b) : s \in {t \in Statuses : t \notin 200..299}, b \in ErrorBodies}
    \cup {HttpResponse(s, b) : s \in {t \in Statuses : t \in 200..299}, b \in SuccessBodies(v)}

\* The smaller inputs of the concurrent specification
ConcPrompts == {Str(0, 1, 0), Str(0, 3, 0), Str(1, 3, 1)}
ConcOutcomes(v) ==
    {NetworkError,
     HttpResponse(401, TextBody("model overloaded")),
     HttpResponse(401, TextBody("invalid request")),
     HttpResponse(404, TextBody("model overloaded")),
     HttpResponse(404, TextBody("invalid request")),
     HttpResponse(404, TextBody(Secret)),
     HttpResponse(200, IF v = "api" THEN BytesBody(<<77, 255>>)
                       ELSE JsonBody(JsonObject(TRUE, <<Artifact(Base64Encode(<<77, 255>>))>>)))}

----------------------------------------------------------------------------
(* Specifications *)

InitOver(ids) ==
    /\ variant \in {"api", "backend"}
    /\ apiKey \in EnvValues
    /\ pc = [i \in ids |-> "idle"]
    /\ prompt = [i \in ids |-> Undefined]
    /\ net = [i \in ids |-> <<>>]
    /\ reply = [i \in ids |-> NoReply]
    /\ res = [i \in ids |-> <<>>]

\* One invocation, the full range of inputs
Init == InitOver({1})

Receive(i) == \E p \in Prompts : HandlerEntry(i, p)
ProviderReply(i) == \E o \in Outcomes(variant) : Settle(i, o)

Next ==
    \/ \E i \in Invocations : Receive(i)
    \/ \E i \in Invocations : ProviderReply(i)
    \/ \E i \in Invocations : FetchSettled(i)
    \/ \E i \in Invocations : BodySettled(i)

Spec == Init /\ [][Next]_vars

\* Several invocations interleaved at their awaits, fewer inputs
ConcInit == InitOver(1..NumConcurrent)

ConcReceive(i) == \E p \in ConcPrompts : HandlerEntry(i, p)
ConcProviderReply(i) == \E o \in ConcOutcomes(variant) : Settle(i, o)

ConcNext ==
    \/ \E i \in Invocations : ConcReceive(i)
    \/ \E i \in Invocations : ConcProviderReply(i)
    \/ \E i \in Invocations : FetchSettled(i)
    \/ \E i \in Invocations : BodySettled(i)

ConcSpec == ConcInit /\ [][ConcNext]_vars

----------------------------------------------------------------------------
(* Vocabulary of the properties, stated on the inputs themselves *)

Started(i) == pc[i] # "idle"
Done(i) == pc[i] = "done"

\* The one response the caller of a finished invocation received
Sent(i) == res[i][1]

IsString(p) == p.type = "string"
TrimmedLength(p) == p.core
RawLength(p) == p.lead + p.core + p.trail

\* The invocation ended in the validation stage: HTTP 400, nothing sent upstream
Rejected(i) ==
    /\ Done(i)
    /\ Len(res[i]) = 1
    /\ Sent(i).status = 400
    /\ ~Sent(i).success
    /\ Sent(i).error \in {PromptTooShort, PromptTooLong}
    /\ net[i] = <<>>

UpstreamFailed(i) == reply[i].kind = "response" /\ ~(reply[i].status \in 200..299)
UpstreamSucceeded(i) == reply[i].kind = "response" /\ reply[i].status \in 200..299

----------------------------------------------------------------------------
\* C1: every prompt that is absent, not a string, of trimmed length < 3 or of
\* raw length > 500 is answered with HTTP 400 and a validation message and no
\* upstream call is made, in both deployments and with or without credential.
C1_InvalidPromptRejected ==
    \A i \in Invocations :
        ( /\ Started(i)
          /\ \/ ~IsString(prompt[i])
             \/ TrimmedLength(prompt[i]) < 3
             \/ RawLength(prompt[i]) > 500 )
        => Rejected(i)

C1_Witness ==
    \E i \in Invocations :
        /\ Rejected(i)
        /\ IsString(prompt[i])
        /\ TrimmedLength(prompt[i]) = 2
        /\ RawLength(prompt[i]) >= 3
        /\ ~KeyMissing(apiKey)
        /\ variant = "backend"

\* C2: with the credential absent, every valid prompt is answered with HTTP
\* 500 and the configuration message, which is neither a validation nor the
\* internal-error message, and no upstream call is made.
C2_MissingCredential ==
    \A i \in Invocations :
        ( /\ Started(i)
          /\ IsString(prompt[i])
          /\ TrimmedLength(prompt[i]) >= 3
          /\ RawLength(prompt[i]) <= 500
          /\ (~apiKey.set \/ apiKey.value = "") )
        => /\ Done(i)
           /\ res[i] = <<ErrorResponse(500, ConfigurationError)>>
           /\ Sent(i).error \notin {PromptTooShort, PromptTooLong, InternalError,
                                    AuthFailed, ModelLoading, RateLimited,
                                    FailedToGenerate}
           /\ net[i] = <<>>
           /\ reply[i] = NoReply

C2_Witness ==
    \E i \in Invocations :
        /\ Done(i)
        /\ IsString(prompt[i])
        /\ TrimmedLength(prompt[i]) = 3
        /\ apiKey.set
        /\ apiKey.value = ""
        /\ res[i] = <<ErrorResponse(500, ConfigurationError)>>

\* C3 as stated: on upstream failure the caller sees 401, 429 or 503 when the
\* provider returned that status and 500 for every other failure.
C3_Original ==
    \A i \in Invocations :
        (Done(i) /\ (UpstreamFailed(i) \/ reply[i].kind = "networkError"))
        => /\ Sent(i).status \in {401, 429, 503, 500}
           /\ reply[i].status \notin {401, 429, 503} => Sent(i).status = 500

\* C3 as amended: on upstream failure the caller sees the provider's own
\* status, whatever it is; it sees 500 only when the handler threw (the fetch
\* rejected, or the backend could not read the error body).
C3_StatusMirrored ==
    \A i \in Invocations :
        Done(i) =>
            /\ reply[i].kind = "networkError" => Sent(i).status = 500
            /\ UpstreamFailed(i) =>
                  IF variant = "backend" /\ reply[i].body.kind = "unreadable"
                  THEN res[i] = <<ErrorResponse(500, InternalError)>>
                  ELSE Sent(i).status = reply[i].status /\ ~Sent(i).success

C3_Witness ==
    \E i \in Invocations :
        /\ Done(i)
        /\ reply[i].kind = "response"
        /\ reply[i].status = 404
        /\ Sent(i).status = 404

\* What C4 calls a transport exception or a malformed provider response
Malformed(v, r) ==
    \/ r.kind = "networkError"
    \/ /\ r.kind = "response"
       /\ r.status \in 200..299
       /\ \/ r.body.kind = "unreadable"
          \/ /\ v = "backend"
             /\ \/ r.body.kind # "json"
                \/ r.body.json.isNull
                \/ ~r.body.json.hasArtifacts
                \/ r.body.json.artifacts = <<>>
                \/ r.body.json.artifacts[1].isNull
                \/ ~r.body.json.artifacts[1].hasBase64

\* C4: a transport exception or a malformed provider response (a body that
\* cannot be parsed, no artifacts, an artifact without an image field) always
\* ends in HTTP 500 with the generic internal-error message, never in Success.
C4_MalformedIsInternalError ==
    \A i \in Invocations :
        (Done(i) /\ Malformed(variant, reply[i]))
        => res[i] = <<ErrorResponse(500, InternalError)>>

\* Both invocations met a provider failure of the same status, with bodies
\* that could be read, for the same prompt.
SameFailure(i, j) ==
    /\ Done(i) /\ Done(j)
    /\ UpstreamFailed(i) /\ UpstreamFailed(j)
    /\ reply[i].status = reply[j].status
    /\ reply[i].body.kind = "text" /\ reply[j].body.kind = "text"
    /\ prompt[i] = prompt[j]

\* C5 as stated: for every provider failure the response to the caller does
\* not depend on the provider's error body, and the credential appears in no
\* response.
C5_Original ==
    /\ \A i, j \in Invocations : SameFailure(i, j) => res[i] = res[j]
    /\ \A i \in Invocations :
          \A k \in 1..Len(res[i]) :
              apiKey.value # "" => res[i][k].error.detail # apiKey.value

\* C5 as amended: the response does not depend on the provider's error body
\* for the 401, 503 and 429 statuses, nor for any failure status in the
\* Hugging Face deployment; in the Stability deployment every other failure
\* status is answered with the provider's error body appended to the message,
\* and that is the only way provider text, and with it a credential the
\* provider echoes, reaches a response.
C5_NoLeakInFixedBuckets ==
    /\ \A i, j \in Invocations :
          ( /\ SameFailure(i, j)
            /\ (variant = "api" \/ reply[i].status \in {401, 503, 429}) )
          => res[i] = res[j]
    /\ \A i \in Invocations :
          \A k \in 1..Len(res[i]) :
              res[i][k].error.detail # "" =>
                  /\ variant = "backend"
                  /\ UpstreamFailed(i)
                  /\ reply[i].status \notin {401, 503, 429}
                  /\ res[i][k].error.detail = reply[i].body.text

C5_Witness ==
    \E i, j \in Invocations :
        /\ SameFailure(i, j)
        /\ variant = "backend"
        /\ reply[i].status = 401
        /\ reply[i].body # reply[j].body
        /\ res[i] = res[j]
        /\ res[i] = <<ErrorResponse(401, AuthFailed)>>

\* C6 as stated: a prompt passes validation exactly when it is a string whose
\* trimmed length is between 3 and 500, whatever its raw length.
C6_Original ==
    \A i \in Invocations :
        Started(i) =>
            ( Rejected(i) <=>
                ~( /\ IsString(prompt[i])
                   /\ TrimmedLength(prompt[i]) >= 3
                   /\ TrimmedLength(prompt[i]) <= 500 ) )

\* C6 as amended: a prompt passes validation exactly when it is a string
\* whose trimmed length is at least 3 and whose raw (untrimmed) length is at
\* most 500; with a credential configured such a prompt goes upstream.
C6_ValidExactly ==
    \A i \in Invocations :
        Started(i) =>
            LET valid == /\ IsString(prompt[i])
                         /\ TrimmedLength(prompt[i]) >= 3
                         /\ RawLength(prompt[i]) <= 500
            IN  /\ Rejected(i) <=> ~valid
                /\ (valid /\ apiKey.set /\ apiKey.value # "") => Len(net[i]) = 1

C6_Witness ==
    \E i \in Invocations :
        /\ Started(i)
        /\ IsString(prompt[i])
        /\ TrimmedLength(prompt[i]) = 500
        /\ RawLength(prompt[i]) = 500
        /\ Len(net[i]) = 1
        /\ ~Rejected(i)

Bucket(status) ==
    CASE status = 401 -> AuthFailed
      [] status = 503 -> ModelLoading
      [] status = 429 -> RateLimited

\* C7 as stated: a provider status of 401, 503 or 429 always yields a Failure
\* with that status and the fixed message of its bucket.
C7_Original ==
    \A i \in Invocations :
        (Done(i) /\ UpstreamFailed(i) /\ reply[i].status \in {401, 503, 429})
        => res[i] = <<ErrorResponse(reply[i].status, Bucket(reply[i].status))>>

\* C7 as amended: a provider status of 401, 503 or 429 yields a Failure with
\* that status and the fixed message of its bucket, in the Hugging Face
\* deployment always and in the Stability deployment whenever the error body
\* could be read (it is read before the status is classified; when reading it
\* throws, the result is the 500 internal error).
C7_FixedBuckets ==
    \A i \in Invocations :
        (Done(i) /\ UpstreamFailed(i) /\ reply[i].status \in {401, 503, 429})
        => IF variant = "backend" /\ reply[i].body.kind = "unreadable"
           THEN res[i] = <<ErrorResponse(500, InternalError)>>
           ELSE /\ res[i] = <<ErrorResponse(reply[i].status, Bucket(reply[i].status))>>
                /\ Sent(i).error.detail = ""
                /\ reply[i].status = 503 =>
                      Sent(i).error.text = "Model is loading, please try again in a few moments"

C7_Witness ==
    \E i \in Invocations :
        /\ Done(i)
        /\ variant = "backend"
        /\ reply[i].kind = "response"
        /\ reply[i].status = 503
        /\ reply[i].body.kind = "text"
        /\ res[i] = <<ErrorResponse(503, ModelLoading)>>

\* The provider answered with a success status and an image the handler's
\* decode strategy can take: the body itself (Hugging Face), or a JSON
\* document whose first artifact carries base64 text (Stability).
Decodable(i) ==
    /\ UpstreamSucceeded(i)
    /\ IF variant = "api" THEN reply[i].body.kind = "bytes"
       ELSE /\ reply[i].body.kind = "json"
            /\ ~reply[i].body.json.isNull
            /\ reply[i].body.json.hasArtifacts
            /\ reply[i].body.json.artifacts # <<>>
            /\ ~reply[i].body.json.artifacts[1].isNull
            /\ reply[i].body.json.artifacts[1].hasBase64
            /\ IsBase64(reply[i].body.json.artifacts[1].base64)

\* The image bytes the provider sent
ProviderBytes(i) ==
    IF variant = "api" THEN reply[i].body.bytes
    ELSE Base64Decode(reply[i].body.json.artifacts[1].base64)

\* C8: when the provider succeeds with a decodable image, the caller gets
\* HTTP 200 with success: true, a PNG data URI whose base64 payload decodes to
\* exactly the provider's bytes, and the prompt as it came in, untrimmed; the
\* prompt sent upstream is the untrimmed prompt too.
C8_SuccessRoundTrip ==
    \A i \in Invocations :
        /\ \A k \in 1..Len(net[i]) : net[i][k].text = prompt[i]
        /\ (Done(i) /\ Decodable(i)) =>
              /\ Len(res[i]) = 1
              /\ Sent(i).status = 200
              /\ Sent(i).success
              /\ Sent(i).image.mime = "image/png"
              /\ IsBase64(Sent(i).image.data)
              /\ Base64Decode(Sent(i).image.data) = ProviderBytes(i)
              /\ Sent(i).prompt = prompt[i]

C8_Witness ==
    \E i \in Invocations :
        /\ Done(i)
        /\ Decodable(i)
        /\ variant = "api"
        /\ Len(ProviderBytes(i)) = 2
        /\ prompt[i].lead > 0
        /\ Sent(i).prompt.lead > 0
        /\ Sent(i).success

\* C9: an invocation that passes validation and the credential check issues
\* exactly one POST to the provider's endpoint and never a second one; after
\* the provider's outcome nothing more is sent upstream, and the caller gets
\* exactly one response, after which the invocation does nothing.
C9_Counts ==
    \A i \in Invocations :
        /\ Len(net[i]) <= 1
        /\ Len(res[i]) <= 1
        /\ Done(i) <=> Len(res[i]) = 1
        /\ \A k \in 1..Len(net[i]) :
              net[i][k].method = "POST" /\ net[i][k].url = Endpoint(variant)
        /\ ( /\ Started(i)
             /\ IsString(prompt[i])
             /\ TrimmedLength(prompt[i]) >= 3
             /\ RawLength(prompt[i]) <= 500
             /\ apiKey.set /\ apiKey.value # "" ) => Len(net[i]) = 1
        /\ reply[i] # NoReply => Len(net[i]) = 1

C9_Step ==
    \A i \in Invocations :
        /\ reply[i] # NoReply => (net'[i] = net[i] /\ reply'[i] = reply[i])
        /\ Done(i) => (pc'[i] = "done" /\ res'[i] = res[i])

\* C9, whole: the counts hold in every state and every step keeps to C9_Step.
C9_SingleCall == [](C9_Counts) /\ [][C9_Step]_vars

C9_Witness ==
    \E i \in Invocations :
        /\ Done(i)
        /\ reply[i].kind = "response"
        /\ reply[i].status = 503
        /\ Len(net[i]) = 1
        /\ Len(res[i]) = 1

\* C10: with invocations interleaved at their awaits, each response is
\* determined by the invocation's own prompt, the credential and its own
\* provider reply: two invocations with the same prompt and reply get the same
\* response, and what a response carries (status, image, prompt, provider
\* text) comes from the reply to that invocation's own request.
C10_Independent ==
    /\ \A i, j \in Invocations :
          (Done(i) /\ Done(j) /\ prompt[i] = prompt[j] /\ reply[i] = reply[j])
          => res[i] = res[j]
    /\ \A i \in Invocations :
          /\ \A k \in 1..Len(net[i]) : net[i][k].text = prompt[i]
          /\ Done(i) =>
                /\ Sent(i).success => Sent(i).prompt = prompt[i]
                /\ Sent(i).success =>
                      (Decodable(i) /\ Base64Decode(Sent(i).image.data) = ProviderBytes(i))
                /\ reply[i] = NoReply => Sent(i).status \in {400, 500}
                /\ reply[i].kind = "networkError" => Sent(i).status = 500
                /\ reply[i].kind = "response" =>
                      Sent(i).status \in {reply[i].status, 500}
                /\ Sent(i).error.detail \in {"", reply[i].body.text}

C10_Witness ==
    \E i, j \in Invocations :
        /\ i # j
        /\ pc[i] = "fetch" /\ reply[i].kind = "response" /\ reply[i].status = 404
        /\ Done(j) /\ Sent(j).success
        /\ prompt[i] # prompt[j]

====
